---- MODULE Spec2Model ----
(***************************************************************************)
(* Model of AI_Project.py: the grid environment (VacuumEnvironment), the  *)
(* two agents (SimpleReflexAgent, ModelBasedAgent) and the step loop      *)
(* (run_simulation).                                                      *)
(*                                                                        *)
(* Three drivers share the state:                                         *)
(*   pc = "env"    a caller invoking the environment's methods directly,  *)
(*   pc = "calls"  a caller invoking an agent's perceive/act/get_stats,   *)
(*   pc = "loop"   run_simulation's while loop ("done" once it returned). *)
(*                                                                        *)
(* Scaling: the source fixes MAX_STEPS = 200 and run_simulation builds an *)
(* 8 x 8 grid; the model keeps the code unchanged and makes MAX_STEPS,    *)
(* the grid size and the number of dirty cells small bounds.              *)
(***************************************************************************)
EXTENDS Integers, Sequences, FiniteSets

\* AI_Project.py:6 sets MAX_STEPS = 200; scaled down here (a bound of the model).
MAX_STEPS == 4
\* Largest grid size N of the model (the source's default is size=8).
MaxSize == 3
\* Largest number of dirty cells np.random.choice may put on the initial grid.
MaxDirt == 2
\* Largest grid size when the environment's methods are called directly, with
\* every coordinate pair from below -N to N.
MaxEnvSize == 2

VARIABLES
    size,          \* env.size
    grid,          \* env.grid, indexed <<row, column>> = <<y, x>>, entries 0 / 1
    initial_dirt,  \* env.initial_dirt
    agent_class,   \* "SimpleReflexAgent" | "ModelBasedAgent" | "none"
    x, y,          \* agent.x, agent.y
    moves,         \* agent.moves
    cleaned,       \* agent.cleaned
    memory,        \* ModelBasedAgent.memory, indexed <<y, x>>, entries -1 / 0 / 1
    pc,            \* which driver runs, and where run_simulation stands
    steps,         \* run_simulation's local steps
    max_steps,     \* run_simulation's argument max_steps
    last,          \* the last call made: its name, arguments, returned value
    visited        \* history: the cells <<y, x>> a ModelBasedAgent has stood on

vars == <<size, grid, initial_dirt, agent_class, x, y, moves, cleaned, memory,
          pc, steps, max_steps, last, visited>>

----------------------------------------------------------------------------
(* numpy arrays                                                            *)

Idx(n) == 0 .. (n - 1)

Cells(n) == Idx(n) \X Idx(n)

\* numpy accepts an index i of an axis of length n iff -n <= i < n ...
InRange(i, n) == (-n <= i) /\ (i < n)

\* ... and a negative index counts from the end.
Norm(i, n) == IF i < 0 THEN i + n ELSE i

\* np.sum of an array whose entries are 0 or 1: the number of ones.
np_sum(g) == Cardinality({c \in DOMAIN g : g[c] = 1})

\* np.full((n, n), v)
np_full(n, v) == [c \in Cells(n) |-> v]

----------------------------------------------------------------------------
(* VacuumEnvironment                                                       *)

\* The grids np.random.choice([0, 1], size=(n, n), p=...) can return.
RandomGrids(n) == {g \in [Cells(n) -> {0, 1}] : np_sum(g) <= MaxDirt}

\* is_dirty with the two indices exchanged: self.grid[x, y].
is_dirty_transposed(g, n, px, py) == g[<<Norm(px, n), Norm(py, n)>>] = 1

\* self.grid[y, x] == 1, for indices numpy accepts
is_dirty(g, n, px, py) == g[<<Norm(py, n), Norm(px, n)>>] = 1

\* clean without its return True: the call returns None, which counts as false.
clean_ret_never(g, n, px, py) == FALSE

\* clean's returned value
clean_ret(g, n, px, py) == g[<<Norm(py, n), Norm(px, n)>>] = 1

\* clean without its assignment self.grid[y, x] = 0.
clean_grid_no_write(g, n, px, py) == g

\* clean writing the cell with the two indices exchanged: self.grid[x, y] = 0.
clean_grid_transposed(g, n, px, py) ==
    IF g[<<Norm(py, n), Norm(px, n)>>] = 1
    THEN [g EXCEPT ![<<Norm(px, n), Norm(py, n)>>] = 0]
    ELSE g

\* clean's effect on the grid
clean_grid(g, n, px, py) ==
    IF g[<<Norm(py, n), Norm(px, n)>>] = 1
    THEN [g EXCEPT ![<<Norm(py, n), Norm(px, n)>>] = 0]
    ELSE g

\* get_total_dirt returning the number of cells (np.size) instead of their sum.
get_total_dirt_size(g) == Cardinality(DOMAIN g)

get_total_dirt(g) == np_sum(g)

----------------------------------------------------------------------------
(* The agents                                                              *)

\* The record kept of a call: its name, its coordinate arguments (0, 0 when it
\* takes none), what it returned (or the exception it raised), for a call
\* returning a number that number, and in again, for a call repeating the call
\* before it (same method, same arguments), what that call returned.
Call(op, px, py, ret, num) ==
    [op |-> op, px |-> px, py |-> py, ret |-> ret, num |-> num, again |-> ""]

\* The record of a call that returned a dict or a tuple: ret names its type
\* and val holds it.
CallVal(op, ret, val) ==
    [op |-> op, px |-> 0, py |-> 0, ret |-> ret, num |-> 0, again |-> "",
     val |-> val]

\* The record of a call of one of the environment's methods.
EnvCall(op, px, py, ret, num) ==
    [op |-> op, px |-> px, py |-> py, ret |-> ret, num |-> num,
     again |-> IF last.op = op /\ last.px = px /\ last.py = py
               THEN last.ret ELSE ""]

\* The budget test written with > instead of >=.
budget_reached_late(m) == m > MAX_STEPS

\* if self.moves >= MAX_STEPS, the first test of both act() methods
budget_reached(m) == m >= MAX_STEPS

\* The candidate list built without the tests at the right and bottom edges,
\* the coordinate wrapping around instead.
possible_moves_wrap(px, py, n) ==
    << <<"RIGHT", (px + 1) % n, py>> >> \o
    (IF px > 0 THEN << <<"LEFT",  px - 1, py>> >> ELSE << >>) \o
    << <<"DOWN",  px, (py + 1) % n>> >> \o
    (IF py > 0 THEN << <<"UP",    px, py - 1>> >> ELSE << >>)

\* The candidate list act() builds, in the order the code appends:
\* <<label, new_x, new_y>>.
possible_moves(px, py, n) ==
    (IF px < n - 1 THEN << <<"RIGHT", px + 1, py>> >> ELSE << >>) \o
    (IF px > 0     THEN << <<"LEFT",  px - 1, py>> >> ELSE << >>) \o
    (IF py < n - 1 THEN << <<"DOWN",  px, py + 1>> >> ELSE << >>) \o
    (IF py > 0     THEN << <<"UP",    px, py - 1>> >> ELSE << >>)

\* [(d, x, y) for d, x, y in possible_moves if self.memory[y, x] == -1]
unvisited(mem, pm) ==
    LET Unknown(m) == mem[<<m[3], m[2]>>] = -1
    IN  SelectSeq(pm, Unknown)

\* perceive writing memory with the two indices exchanged: self.memory[x, y].
perceive_memory_transposed(mem, g, n, px, py) ==
    [mem EXCEPT ![<<px, py>>] = IF is_dirty(g, n, px, py) THEN 1 ELSE 0]

\* ModelBasedAgent.perceive's effect on memory
perceive_memory(mem, g, n, px, py) ==
    [mem EXCEPT ![<<py, px>>] = IF is_dirty(g, n, px, py) THEN 1 ELSE 0]

\* The list handed to random.choice without the preference for unvisited cells.
model_choices_all(mem, pm) == pm

\* The list handed to random.choice with new_x and new_y exchanged.
model_choices_swapped(mem, pm) ==
    LET u == IF unvisited(mem, pm) # << >> THEN unvisited(mem, pm) ELSE pm
    IN  [i \in 1 .. Len(u) |-> <<u[i][1], u[i][3], u[i][2]>>]

\* The list ModelBasedAgent.act hands to random.choice
model_choices(mem, pm) ==
    IF unvisited(mem, pm) # << >> THEN unvisited(mem, pm) ELSE pm

\* The tail of both act() methods, from random.choice on: the agent moves to
\* one of cands, or random.choice raises IndexError on an empty list and the
\* position stays.
move_to(cands) ==
    IF cands = << >>
    THEN /\ last' = Call("act", 0, 0, "IndexError", 0)
         /\ UNCHANGED <<x, y>>
    ELSE \E i \in 1 .. Len(cands) :
            /\ x' = cands[i][2]
            /\ y' = cands[i][3]
            /\ last' = Call("act", 0, 0, cands[i][1], 0)

\* SimpleReflexAgent.act on the state it reads and writes: the grid and the
\* agent's x, y, moves, cleaned (the class has no memory).
SimpleReflexAgent_step ==
    IF budget_reached(moves)
    THEN /\ last' = Call("act", 0, 0, "None", 0)
         /\ UNCHANGED <<grid, x, y, moves, cleaned>>
    ELSE /\ moves' = moves + 1
         /\ IF is_dirty(grid, size, x, y)
            THEN /\ grid' = clean_grid(grid, size, x, y)
                 /\ cleaned' = IF clean_ret(grid, size, x, y)
                               THEN cleaned + 1 ELSE cleaned
                 /\ last' = Call("act", 0, 0, "CLEAN", 0)
                 /\ UNCHANGED <<x, y>>
            ELSE /\ UNCHANGED <<grid, cleaned>>
                 /\ move_to(possible_moves(x, y, size))

SimpleReflexAgent_act ==
    /\ SimpleReflexAgent_step
    /\ UNCHANGED memory

\* ModelBasedAgent.act without its assignment self.memory[self.y, self.x] = 0.
ModelBasedAgent_act_no_memory_write ==
    IF budget_reached(moves)
    THEN /\ last' = Call("act", 0, 0, "None", 0)
         /\ UNCHANGED <<grid, x, y, moves, cleaned, memory>>
    ELSE /\ moves' = moves + 1
         /\ IF is_dirty(grid, size, x, y)
            THEN /\ grid' = clean_grid(grid, size, x, y)
                 /\ cleaned' = IF clean_ret(grid, size, x, y)
                               THEN cleaned + 1 ELSE cleaned
                 /\ memory' = perceive_memory(memory, grid, size, x, y)
                 /\ last' = Call("act", 0, 0, "CLEAN", 0)
                 /\ UNCHANGED <<x, y>>
            ELSE /\ UNCHANGED <<grid, cleaned>>
                 /\ memory' = perceive_memory(memory, grid, size, x, y)
                 /\ move_to(model_choices(
                        perceive_memory(memory, grid, size, x, y),
                        possible_moves(x, y, size)))

ModelBasedAgent_act ==
    IF budget_reached(moves)
    THEN /\ last' = Call("act", 0, 0, "None", 0)
         /\ UNCHANGED <<grid, x, y, moves, cleaned, memory>>
    ELSE /\ moves' = moves + 1
         /\ IF is_dirty(grid, size, x, y)
            THEN /\ grid' = clean_grid(grid, size, x, y)
                 /\ cleaned' = IF clean_ret(grid, size, x, y)
                               THEN cleaned + 1 ELSE cleaned
                 /\ memory' = IF clean_ret(grid, size, x, y)
                              THEN [perceive_memory(memory, grid, size, x, y)
                                        EXCEPT ![<<y, x>>] = 0]
                              ELSE perceive_memory(memory, grid, size, x, y)
                 /\ last' = Call("act", 0, 0, "CLEAN", 0)
                 /\ UNCHANGED <<x, y>>
            ELSE /\ UNCHANGED <<grid, cleaned>>
                 /\ memory' = perceive_memory(memory, grid, size, x, y)
                 /\ move_to(model_choices(
                        perceive_memory(memory, grid, size, x, y),
                        possible_moves(x, y, size)))

\* agent.act() of whichever class the agent is
act ==
    \/ agent_class = "SimpleReflexAgent" /\ SimpleReflexAgent_act
    \/ agent_class = "ModelBasedAgent" /\ ModelBasedAgent_act

\* The history of cells stood on, after a call that may have moved the agent.
now_visited ==
    IF agent_class = "ModelBasedAgent" THEN visited \cup {<<y', x'>>} ELSE visited

\* agent.perceive(): the returned percept, and the model-based agent's memory
perceive ==
    /\ last' = Call("perceive", 0, 0,
                    IF is_dirty(grid, size, x, y) THEN "True" ELSE "False", 0)
    /\ memory' = IF agent_class = "ModelBasedAgent"
                 THEN perceive_memory(memory, grid, size, x, y)
                 ELSE memory
    /\ UNCHANGED <<grid, x, y, moves, cleaned>>

\* get_stats(): efficiency is the quotient cleaned / moves, kept as the pair
\* <<numerator, denominator>>, or 0 = <<0, 1>> when moves is 0.
get_stats ==
    [type |-> IF agent_class = "SimpleReflexAgent"
              THEN "Simple Reflex" ELSE "Model-Based",
     moves |-> moves,
     cleaned |-> cleaned,
     efficiency |-> IF moves > 0 THEN <<cleaned, moves>> ELSE <<0, 1>>]

\* __init__ of either agent class
AgentInit(class) ==
    /\ agent_class = class
    /\ x = 0
    /\ y = 0
    /\ moves = 0
    /\ cleaned = 0
    /\ memory = IF class = "ModelBasedAgent"
                THEN [np_full(size, -1) EXCEPT ![<<0, 0>>] = 0]
                ELSE << >>

\* __init__ taking the number of cells for initial_dirt (np.size for np.sum).
EnvInit_size(n) ==
    /\ size = n
    /\ grid \in RandomGrids(n)
    /\ initial_dirt = n * n

\* VacuumEnvironment.__init__(size=n)
EnvInit(n) ==
    /\ size = n
    /\ grid \in RandomGrids(n)
    /\ initial_dirt = np_sum(grid)

AgentClasses == {"SimpleReflexAgent", "ModelBasedAgent"}

Sizes == 1 .. MaxSize

\* The step budgets run_simulation is called with: below, at and above MAX_STEPS.
Budgets == 0 .. (MAX_STEPS + 2)

----------------------------------------------------------------------------
(* Driver 1: direct calls of the environment's methods                     *)

\* Coordinates a caller may pass: in range, negative, and past either end.
Coords == (0 - size - 1) .. size

InitEnv ==
    /\ \E n \in 1 .. MaxEnvSize : EnvInit(n)
    /\ agent_class = "none"
    /\ x = 0 /\ y = 0 /\ moves = 0 /\ cleaned = 0 /\ memory = << >>
    /\ pc = "env"
    /\ steps = 0
    /\ max_steps = 0
    /\ last = Call("init", 0, 0, "None", 0)
    /\ visited = IF agent_class = "ModelBasedAgent" THEN {<<0, 0>>} ELSE {}

EnvFrame == UNCHANGED <<size, initial_dirt, agent_class, x, y, moves, cleaned,
                        memory, pc, steps, max_steps, visited>>

CallIsDirty ==
    /\ pc = "env"
    /\ \E px \in Coords, py \in Coords :
          last' = EnvCall("is_dirty", px, py,
                       IF InRange(px, size) /\ InRange(py, size)
                       THEN (IF is_dirty(grid, size, px, py)
                             THEN "True" ELSE "False")
                       ELSE "IndexError", 0)
    /\ UNCHANGED grid
    /\ EnvFrame

CallClean ==
    /\ pc = "env"
    /\ \E px \in Coords, py \in Coords :
          IF InRange(px, size) /\ InRange(py, size)
          THEN /\ grid' = clean_grid(grid, size, px, py)
               /\ last' = EnvCall("clean", px, py,
                                  IF clean_ret(grid, size, px, py)
                                  THEN "True" ELSE "False", 0)
          ELSE /\ grid' = grid
               /\ last' = EnvCall("clean", px, py, "IndexError", 0)
    /\ EnvFrame

CallGetTotalDirt ==
    /\ pc = "env"
    /\ last' = EnvCall("get_total_dirt", 0, 0, "int", get_total_dirt(grid))
    /\ UNCHANGED grid
    /\ EnvFrame

----------------------------------------------------------------------------
(* Driver 2: direct calls of an agent's methods                            *)

InitCalls ==
    /\ \E n \in Sizes : EnvInit(n)
    /\ \E c \in AgentClasses : AgentInit(c)
    /\ pc = "calls"
    /\ steps = 0
    /\ max_steps = 0
    /\ last = Call("init", 0, 0, "None", 0)
    /\ visited = IF agent_class = "ModelBasedAgent" THEN {<<0, 0>>} ELSE {}

CallAct ==
    /\ pc = "calls"
    /\ act
    /\ visited' = now_visited
    /\ UNCHANGED <<size, initial_dirt, agent_class, pc, steps, max_steps>>

CallPerceive ==
    /\ pc = "calls"
    /\ perceive
    /\ UNCHANGED <<size, initial_dirt, agent_class, pc, steps, max_steps, visited>>

CallGetStats ==
    /\ pc = "calls"
    /\ last' = CallVal("get_stats", "dict", get_stats)
    /\ UNCHANGED <<size, grid, initial_dirt, agent_class, x, y, moves, cleaned,
                   memory, pc, steps, max_steps, visited>>

----------------------------------------------------------------------------
(* Driver 3: run_simulation(agent_class, max_steps)                        *)

InitRun ==
    /\ \E n \in Sizes : EnvInit(n)
    /\ \E c \in AgentClasses : AgentInit(c)
    /\ pc = "loop"
    /\ steps = 0
    /\ max_steps \in Budgets
    /\ last = Call("init", 0, 0, "None", 0)
    /\ visited = IF agent_class = "ModelBasedAgent" THEN {<<0, 0>>} ELSE {}

\* return agent.get_stats(), env.initial_dirt
run_return ==
    /\ pc' = "done"
    /\ last' = CallVal("run_simulation", "tuple", <<get_stats, initial_dirt>>)
    /\ UNCHANGED <<size, grid, initial_dirt, agent_class, x, y, moves, cleaned,
                   memory, steps, max_steps, visited>>

\* while steps < max_steps: false
RunExit ==
    /\ pc = "loop"
    /\ ~(steps < max_steps)
    /\ run_return

\* if env.get_total_dirt() == 0: break
RunBreak ==
    /\ pc = "loop"
    /\ steps < max_steps
    /\ get_total_dirt(grid) = 0
    /\ run_return

\* agent.act(); steps += 1.  The returned value is dropped; an exception
\* raised by act() leaves run_simulation without a returned value.
RunAct ==
    /\ pc = "loop"
    /\ steps < max_steps
    /\ get_total_dirt(grid) # 0
    /\ act
    /\ visited' = now_visited
    /\ IF last'.ret = "IndexError"
       THEN pc' = "raised" /\ steps' = steps
       ELSE pc' = "loop" /\ steps' = steps + 1
    /\ UNCHANGED <<size, initial_dirt, agent_class, max_steps>>

----------------------------------------------------------------------------

NextEnv ==
    \/ CallIsDirty
    \/ CallClean
    \/ CallGetTotalDirt

NextCalls ==
    \/ CallAct
    \/ CallPerceive
    \/ CallGetStats

NextRun ==
    \/ RunExit
    \/ RunBreak
    \/ RunAct

Init == InitEnv \/ InitCalls \/ InitRun

Next == NextEnv \/ NextCalls \/ NextRun

\* Any of the three drivers.
Spec == Init /\ [][Next]_vars

\* A caller of the environment alone.
SpecEnv == InitEnv /\ [][NextEnv]_vars

\* A caller of one agent's methods, in any order.
SpecCalls == InitCalls /\ [][NextCalls]_vars

\* run_simulation, from its call to its return.
SpecRun == InitRun /\ [][NextRun]_vars

\* A caller that calls nothing but an agent's act(), as run_simulation and
\* visualize_agent's animate do, without their stopping rules.
SpecActs == InitCalls /\ [][CallAct]_vars

----------------------------------------------------------------------------
(* Properties                                                              *)

Directions == {"RIGHT", "LEFT", "DOWN", "UP"}

\* run_simulation is the driver.
InRun == pc \in {"loop", "done", "raised"}

\* The step just taken is a call of the named method (every action records
\* the call it models in last; a step that changes nothing needs no check).
Called(op) == last'.op = op

\* C1: in every reachable state cleaned <= initial_dirt and moves <= the step
\* budget (MAX_STEPS inside act(), and max_steps in run_simulation), for both
\* agent classes and every initial grid; no step decreases moves or cleaned.
C1_CountersBounded ==
    /\ [](/\ cleaned <= initial_dirt
          /\ moves <= MAX_STEPS
          /\ (InRun => moves <= max_steps))
    /\ [][moves' >= moves /\ cleaned' >= cleaned]_vars

\* C1's case: an agent that cleaned all the dirt there was, used up its
\* budget, and was called once more.
C1_Witness ==
    /\ pc = "calls"
    /\ moves = MAX_STEPS
    /\ cleaned = initial_dirt
    /\ cleaned = MaxDirt
    /\ last.op = "act"
    /\ last.ret = "None"

\* C2: when run_simulation has returned, either no dirt remains and at most
\* max_steps steps were taken, or exactly max_steps steps were taken and
\* moves equals max_steps.
C2_StopsConvergedOrAtBudget ==
    pc = "done" =>
        \/ (np_sum(grid) = 0 /\ steps <= max_steps)
        \/ (steps = max_steps /\ moves = max_steps)

\* C3: an act() call made below the budget on a dirty cell returns CLEAN,
\* leaves the position unchanged, leaves that cell clean and adds exactly 1
\* to cleaned, for both agent classes.
C3_DirtyCellCleanedFirst ==
    [][(Called("act") /\ moves < MAX_STEPS /\ grid[<<y, x>>] = 1) =>
          /\ last'.ret = "CLEAN"
          /\ x' = x
          /\ y' = y
          /\ grid'[<<y, x>>] = 0
          /\ cleaned' = cleaned + 1]_vars

\* C3's case: the model-based agent has just cleaned a cell other than the
\* start cell, as its second clean.
C3_Witness ==
    /\ agent_class = "ModelBasedAgent"
    /\ last.op = "act"
    /\ last.ret = "CLEAN"
    /\ <<x, y>> # <<0, 0>>
    /\ cleaned = 2

\* C4: clean(x, y) on an in-bounds dirty cell returns True and lowers the total
\* dirt by exactly 1; the same call made again right after returns False and
\* changes neither the total dirt nor any cell.
C4_CleanTwice ==
    [][Called("clean") =>
          /\ (/\ last'.px \in Idx(size)
              /\ last'.py \in Idx(size)
              /\ grid[<<last'.py, last'.px>>] = 1)
             => (/\ last'.ret = "True"
                 /\ np_sum(grid') = np_sum(grid) - 1)
          /\ (/\ last'.px \in Idx(size)
              /\ last'.py \in Idx(size)
              /\ last'.again = "True")
             => (/\ last'.ret = "False"
                 /\ np_sum(grid') = np_sum(grid)
                 /\ grid' = grid)]_vars

\* C4's case: clean has just returned False on an in-bounds cell on which the
\* call before it, the same one, returned True.
C4_Witness ==
    /\ last.op = "clean"
    /\ last.px \in Idx(size)
    /\ last.py \in Idx(size)
    /\ last.again = "True"
    /\ last.ret = "False"
    /\ np_sum(grid) = initial_dirt - 1

\* C5: under perceive() and act() calls of either agent no cell goes from
\* clean to dirty; a cell changes only in an act() call and only if it is the
\* cell the agent stood on when the call began; perceive() and an act() that
\* moves leave the grid unchanged.
C5_GridFrame ==
    [][/\ \A c \in DOMAIN grid :
             /\ (grid[c] = 0 => grid'[c] = 0)
             /\ (grid'[c] # grid[c] => (Called("act") /\ c = <<y, x>>))
       /\ (Called("perceive") => grid' = grid)
       /\ ((Called("act") /\ last'.ret \in Directions) => grid' = grid)]_vars

\* C5's case: the agent has cleaned one cell, moved off it while another cell
\* is still dirty, and perceive() was called there.
C5_Witness ==
    /\ last.op = "perceive"
    /\ cleaned = 1
    /\ np_sum(grid) = 1
    /\ <<x, y>> # <<0, 0>>
    /\ moves >= 2

\* C6: initial_dirt is the number of dirty cells of the grid at construction,
\* and no call of any method, nor run_simulation, changes it.
C6_InitialDirtFixed ==
    /\ [](last.op = "init" => initial_dirt = np_sum(grid))
    /\ [][initial_dirt' = initial_dirt]_vars

\* C6's case: run_simulation has returned after all the dirt of a grid with
\* the most dirt was cleaned.
C6_Witness ==
    /\ pc = "done"
    /\ np_sum(grid) = 0
    /\ initial_dirt = MaxDirt
    /\ last.val[2] = MaxDirt

\* The in-bounds orthogonal neighbours of (px, py) on an n x n grid, as <<x, y>>.
Neighbours(px, py, n) ==
    {p \in Idx(n) \X Idx(n) :
        \/ (p[1] = px /\ (p[2] = py + 1 \/ p[2] = py - 1))
        \/ (p[2] = py /\ (p[1] = px + 1 \/ p[1] = px - 1))}

\* The neighbours the model-based agent has no knowledge of.
UnknownNeighbours(px, py, n) ==
    {p \in Neighbours(px, py, n) : memory[<<p[2], p[1]>>] = -1}

\* The positions one act() call can leave the agent at.
Destinations ==
    {p \in Idx(size) \X Idx(size) : ENABLED (CallAct /\ x' = p[1] /\ y' = p[2])}

\* act() is about to be called on a clean cell, below the budget, on a grid
\* of at least 2 x 2 cells.
AboutToMove ==
    /\ pc = "calls"
    /\ size >= 2
    /\ moves < MAX_STEPS
    /\ grid[<<y, x>>] = 0

\* The label an act() call returns for a move is that of the move made, and
\* an act() call on a clean cell returns such a label.
LabelsMatch ==
    /\ (Called("act") /\ AboutToMove) => last'.ret \in Directions
    /\ (Called("act") /\ last'.ret = "RIGHT") => (x' = x + 1 /\ y' = y)
    /\ (Called("act") /\ last'.ret = "LEFT") => (x' = x - 1 /\ y' = y)
    /\ (Called("act") /\ last'.ret = "DOWN") => (x' = x /\ y' = y + 1)
    /\ (Called("act") /\ last'.ret = "UP") => (x' = x /\ y' = y - 1)

\* C7 as stated: the position stays on the grid; on a clean cell, below the
\* budget, the positions act() can move to are exactly the in-bounds orthogonal
\* neighbours, 2 of them at the corner (0,0), for both agent classes; the
\* returned label matches the move.
C7_AllNeighboursBothAgents ==
    /\ [](/\ x \in Idx(size)
          /\ y \in Idx(size)
          /\ AboutToMove =>
                LET dest == Destinations
                IN  /\ dest = Neighbours(x, y, size)
                    /\ (<<x, y>> = <<0, 0>> => Cardinality(dest) = 2))
    /\ [][LabelsMatch]_vars

\* C7 amended: the position stays on the grid; on a clean cell, below the
\* budget, SimpleReflexAgent can move to exactly the in-bounds orthogonal
\* neighbours (2 of them at the corner (0,0)), and ModelBasedAgent to exactly
\* those of them it has no knowledge of when there is one, to all of them
\* otherwise; the returned label matches the move.
C7_NeighboursByAgent ==
    /\ [](/\ x \in Idx(size)
          /\ y \in Idx(size)
          /\ (AboutToMove /\ agent_class = "SimpleReflexAgent") =>
                LET dest == Destinations
                IN  /\ dest = Neighbours(x, y, size)
                    /\ (<<x, y>> = <<0, 0>> => Cardinality(dest) = 2)
          /\ (AboutToMove /\ agent_class = "ModelBasedAgent") =>
                Destinations = IF UnknownNeighbours(x, y, size) # {}
                               THEN UnknownNeighbours(x, y, size)
                               ELSE Neighbours(x, y, size))
    /\ [][LabelsMatch]_vars

\* C7's case: the model-based agent stands on a clean cell with a known and
\* an unknown neighbour, having moved there, and may move again.
C7_Witness ==
    /\ AboutToMove
    /\ agent_class = "ModelBasedAgent"
    /\ last.op = "act"
    /\ last.ret \in Directions
    /\ UnknownNeighbours(x, y, size) # {}
    /\ UnknownNeighbours(x, y, size) # Neighbours(x, y, size)

\* C8: on a 1 x 1 grid whose cell is dirty, every act() call made before the
\* budget is reached returns CLEAN without error, with cleaned at 1 and the
\* position at (0,0) after it.
C8_OneCellAlwaysClean ==
    (/\ pc = "calls"
     /\ size = 1
     /\ initial_dirt = 1
     /\ last.op = "act"
     /\ last.ret # "None")
    => (/\ last.ret = "CLEAN"
        /\ cleaned = 1
        /\ <<x, y>> = <<0, 0>>)

\* C9: run_simulation calls act() only while dirt remains; once no dirt
\* remains the agent's position, moves and cleaned change no more, the loop
\* returns, and the returned stats carry the moves and cleaned of that state.
C9_NoActOnceClean ==
    [][/\ Called("act") => np_sum(grid) > 0
       /\ np_sum(grid) = 0 =>
             /\ <<x', y', moves', cleaned'>> = <<x, y, moves, cleaned>>
             /\ pc = "loop" =>
                   /\ pc' = "done"
                   /\ last'.val[1].moves = moves
                   /\ last'.val[1].cleaned = cleaned
                   /\ last'.val[2] = initial_dirt]_vars

\* C9's case: run_simulation returned before its budget was used up, the
\* last dirt having been cleaned away from the start cell.
C9_Witness ==
    /\ pc = "done"
    /\ np_sum(grid) = 0
    /\ initial_dirt > 0
    /\ steps < max_steps
    /\ <<x, y>> # <<0, 0>>
    /\ last.val[1].cleaned = initial_dirt

\* C10: in run_simulation steps equals the agent's moves after every
\* iteration, act() is called at most max_steps times, and after an act() call
\* that returned None no further act() call is made.
C10_RunnerLockstep ==
    /\ [](pc \in {"loop", "done"} => (steps = moves /\ steps <= max_steps))
    /\ [][(last.op = "act" /\ last.ret = "None") => ~Called("act")]_vars

\* C11: an act() call made with moves at the budget returns None and leaves
\* position, moves, cleaned, the grid and the memory unchanged; every other
\* act() call adds exactly 1 to moves. Both agent classes.
C11_BudgetFrame ==
    [][Called("act") =>
          IF moves >= MAX_STEPS
          THEN /\ last'.ret = "None"
               /\ <<x', y', moves', cleaned', grid', memory'>>
                    = <<x, y, moves, cleaned, grid, memory>>
          ELSE /\ last'.ret # "None"
               /\ moves' = moves + 1]_vars

\* C11's case: the model-based agent, its budget used up with dirt left, was
\* called again and returned None.
C11_Witness ==
    /\ pc = "calls"
    /\ agent_class = "ModelBasedAgent"
    /\ moves = MAX_STEPS
    /\ np_sum(grid) > 0
    /\ last.op = "act"
    /\ last.ret = "None"

\* C12: is_dirty(x, y) and clean(x, y) with x or y outside [0, N), negative
\* values included, raise an out-of-bounds error and leave the grid unchanged.
C12_OutOfBoundsRaises ==
    [][((Called("is_dirty") \/ Called("clean"))
        /\ (last'.px \notin Idx(size) \/ last'.py \notin Idx(size)))
       => (last'.ret = "IndexError" /\ grid' = grid)]_vars

\* C13: a run started with an invalid configuration (size below 1 or step
\* budget below 1) makes no act() call and returns no statistics.
C13_InvalidConfigurationFails ==
    (size < 1 \/ max_steps < 1) => (pc # "done" /\ last.op \notin {"act", "run_simulation"})

\* The change of x and of y that a selected direction stands for.
DeltaX(sel) == IF sel = "RIGHT" THEN 1 ELSE IF sel = "LEFT" THEN 0 - 1 ELSE 0

DeltaY(sel) == IF sel = "DOWN" THEN 1 ELSE IF sel = "UP" THEN 0 - 1 ELSE 0

\* What one act() call returns and leaves in (x, y, moves, cleaned, grid), as a
\* function of these five before the call and of the selection sel drawn by
\* random.choice in it, and of nothing else.
ReplayStep(sel) ==
    IF moves >= MAX_STEPS
    THEN <<"None", x, y, moves, cleaned, grid>>
    ELSE IF grid[<<y, x>>] = 1
         THEN <<"CLEAN", x, y, moves + 1, cleaned + 1,
                [grid EXCEPT ![<<y, x>>] = 0]>>
         ELSE <<sel, x + DeltaX(sel), y + DeltaY(sel), moves + 1, cleaned, grid>>

\* C14: deterministic replay. In a run, every act() call's returned value and
\* its effect on position, moves, cleaned and grid are a function of their
\* values before the call and of the random selection made in the call; so two
\* runs of one agent class from the same grid with the same selections go
\* through the same (moves, cleaned) values step for step.
C14_StepDeterminedBySelection ==
    [][Called("act") =>
          <<last'.ret, x', y', moves', cleaned', grid'>> = ReplayStep(last'.ret)]_vars

\* C14's case: a run of the model-based agent that has cleaned, has perceived
\* the start cell and another cell it left since, and has just moved.
C14_Witness ==
    /\ pc = "loop"
    /\ agent_class = "ModelBasedAgent"
    /\ moves >= 3
    /\ cleaned >= 1
    /\ grid[<<0, 0>>] = 0
    /\ initial_dirt = np_sum(grid) + cleaned
    /\ last.op = "act"
    /\ last.ret \in Directions
    /\ memory[<<0, 0>>] = 0
    /\ \E c \in DOMAIN grid : c # <<0, 0>> /\ memory[c] = 0 /\ c # <<y, x>>

\* C15: when ModelBasedAgent.act() is about to move (clean cell, budget not
\* reached, a neighbour exists): if some in-bounds neighbour has memory -1 the
\* positions it can move to are exactly the neighbours with memory -1;
\* otherwise they are exactly all in-bounds neighbours.
C15_UnknownNeighboursFirst ==
    (/\ pc = "calls"
     /\ agent_class = "ModelBasedAgent"
     /\ moves < MAX_STEPS
     /\ grid[<<y, x>>] = 0
     /\ Neighbours(x, y, size) # {})
    => LET dest == Destinations
           unknown == {p \in Neighbours(x, y, size) : memory[<<p[2], p[1]>>] = -1}
       IN  /\ unknown # {} => dest = unknown
           /\ unknown = {} => dest = Neighbours(x, y, size)

\* C15's case: the model-based agent stands on a clean cell all of whose
\* neighbours it knows, with budget left.
C15_Witness ==
    /\ pc = "calls"
    /\ agent_class = "ModelBasedAgent"
    /\ moves < MAX_STEPS
    /\ grid[<<y, x>>] = 0
    /\ Neighbours(x, y, size) # {}
    /\ UnknownNeighbours(x, y, size) = {}

\* C16: for ModelBasedAgent every cell the agent has never stood on (the start
\* cell counts as stood on) has memory -1, and one act() or perceive() call
\* changes the memory of no cell but the one the agent stands on when the call
\* begins.
C16_MemoryOnlyWhereStood ==
    /\ [](agent_class = "ModelBasedAgent" =>
             \A c \in DOMAIN memory : c \notin visited => memory[c] = 0 - 1)
    /\ [][agent_class = "ModelBasedAgent" =>
             \A c \in DOMAIN memory : memory'[c] # memory[c] => c = <<y, x>>]_vars

\* C16's case: the model-based agent has stood on three cells, has knowledge
\* of a cell away from the start, and cells it never stood on remain.
C16_Witness ==
    /\ agent_class = "ModelBasedAgent"
    /\ Cardinality(visited) = 3
    /\ \E c \in visited : c # <<0, 0>> /\ memory[c] # 0 - 1
    /\ \E c \in DOMAIN memory : c \notin visited
    /\ last.op = "perceive"

\* C17: for ModelBasedAgent an act() call that cleans a cell leaves that
\* cell's memory at 0, and a clean cell whose memory is 0 keeps memory 0 (and
\* stays clean) under every later act() and perceive() call, the ones made on
\* that cell included: it is never -1 or 1 again.
C17_CleanedStaysKnownClean ==
    [][agent_class = "ModelBasedAgent" =>
          /\ (Called("act") /\ last'.ret = "CLEAN") => memory'[<<y, x>>] = 0
          /\ \A c \in DOMAIN memory :
                (memory[c] = 0 /\ grid[c] = 0) => (memory'[c] = 0 /\ grid'[c] = 0)]_vars

\* C17's case: the model-based agent cleaned the start cell in its first
\* act() and perceive() was then called on that cell.
C17_Witness ==
    /\ pc = "calls"
    /\ agent_class = "ModelBasedAgent"
    /\ moves = 1
    /\ cleaned = 1
    /\ <<x, y>> = <<0, 0>>
    /\ last.op = "perceive"
    /\ last.ret = "False"
    /\ memory[<<0, 0>>] = 0

\* C18: under act() calls alone (an agent's methods called directly, or
\* run_simulation) cleaned + get_total_dirt() = initial_dirt in every state;
\* and when run_simulation has returned with no dirt left, the returned
\* cleaned count equals the returned initial_dirt.
C18_DirtConserved ==
    pc # "env" =>
        /\ cleaned + np_sum(grid) = initial_dirt
        /\ (pc = "done" /\ np_sum(grid) = 0) =>
              last.val[1].cleaned = last.val[2]

\* C18's case: run_simulation returned, within its budget, after the agent
\* cleaned two cells and no dirt is left.
C18_Witness ==
    /\ pc = "done"
    /\ np_sum(grid) = 0
    /\ cleaned = 2
    /\ steps <= max_steps
    /\ last.val[1].cleaned = 2
    /\ last.val[2] = 2

C20_ModelBasedRefinesSimple ==
    [][(Called("act") /\ agent_class = "ModelBasedAgent")
       => SimpleReflexAgent_step]_vars

\* C20's case: the model-based agent has cleaned, stood on three cells and
\* just moved, to a cell it had no knowledge of.
C20_Witness ==
    /\ pc = "calls"
    /\ agent_class = "ModelBasedAgent"
    /\ cleaned >= 1
    /\ Cardinality(visited) >= 3
    /\ last.op = "act"
    /\ last.ret \in Directions
    /\ memory[<<y, x>>] = 0 - 1

====
